---- MODULE Spec2Model ----
(***************************************************************************)
(* Model of src/app.py: the upload form handler (upload_file), the plot    *)
(* generator (generate_visualization_with_gemini) and the image route      *)
(* (serve_image).                                                          *)
(*                                                                         *)
(* Strings are sequences of one-character strings, so that splitext,       *)
(* replace, join, basename, URL quoting and path resolution are computed   *)
(* character by character as the library routines compute them.            *)
(***************************************************************************)
EXTENDS Naturals, Sequences, FiniteSets, TLC

(***************************************************************************)
(* Bounds of the model.                                                    *)
(***************************************************************************)
\* number of POST requests that may be in flight together (SpecRace)
NReq == 2
\* longest part of an uploaded filename in front of its extension
MaxBaseLen == 2
\* longest submitted sheet identifier
MaxSheetLen == 1

(***************************************************************************)
(* String literals of the source.                                          *)
(***************************************************************************)
TmpDir == <<"/","t","m","p">>
SheetInfix == <<"_","s","h","e","e","t","_">>
CompositeSuffix == <<"_","c","o","m","p","o","s","i","t","e","_","p","l","o","t",".","p","n","g">>
CombinedSuffix == <<"_","c","o","m","b","i","n","e","d","_","c","t","p","_","g","r","a","p","h",".","p","n","g">>
ImagesPrefix == <<"/","i","m","a","g","e","s","/">>
ExtCsv == <<".","c","s","v">>
ExtXls == <<".","x","l","s">>
ExtXlsx == <<".","x","l","s","x">>
DefaultSheet == <<"0">>

MsgNoFilePart == <<"No file part">>
MsgNoSelectedFile == <<"No selected file">>
MsgUnsupported(ext) == <<"Unsupported file type", ": ">> \o ext \o <<". Please use .xlsx, .xls, or .csv.">>
MsgPlotFailed == <<"Plot generation failed", ". Check Cloud Run logs for details.">>
MsgInternal == <<"An internal error occurred during processing", ": ", "e">>

(***************************************************************************)
(* String routines.                                                        *)
(***************************************************************************)
\* all strings over alphabet A of length at most n
RECURSIVE Strings(_, _)
Strings(A, n) ==
    IF n = 0 THEN {<<>>}
    ELSE LET S == Strings(A, n - 1)
         IN  S \cup {Append(s, c) : s \in {t \in S : Len(t) = n - 1}, c \in A}

\* str.rfind: the last index of c in s, 0 when absent
RFind(s, c) ==
    LET I == {i \in 1..Len(s) : s[i] = c}
    IN  IF I = {} THEN 0 ELSE CHOOSE i \in I : \A j \in I : j <= i

\* str.lower on the letters the model uses
LowerChar(c) ==
    CASE c = "A" -> "a" [] c = "C" -> "c" [] c = "S" -> "s" [] c = "V" -> "v"
      [] OTHER -> c

Lower(s) == [i \in 1..Len(s) |-> LowerChar(s[i])]

\* str.replace(" ", "_")
ReplaceSpaces(s) == [i \in 1..Len(s) |-> IF s[i] = " " THEN "_" ELSE s[i]]

\* os.path.splitext: the extension starts at the last dot of the last path
\* component, unless only dots precede it in that component
SplitExt(p) ==
    LET sepIndex == RFind(p, "/")
        dotIndex == RFind(p, ".")
    IN  IF dotIndex > sepIndex
           /\ \E k \in (sepIndex + 1)..(dotIndex - 1) : p[k] # "."
        THEN <<SubSeq(p, 1, dotIndex - 1), SubSeq(p, dotIndex, Len(p))>>
        ELSE <<p, <<>>>>

\* os.path.join(a, b) of two parts
PathJoin(a, b) ==
    IF b # <<>> /\ b[1] = "/" THEN b
    ELSE IF a = <<>> \/ a[Len(a)] = "/" THEN a \o b
    ELSE a \o <<"/">> \o b

\* os.path.basename
Basename(p) == SubSeq(p, RFind(p, "/") + 1, Len(p))

\* the URL quoting url_for applies to a path variable
RECURSIVE UrlQuote(_)
UrlQuote(s) ==
    IF s = <<>> THEN <<>>
    ELSE (CASE Head(s) = " " -> <<"%","2","0">>
            [] Head(s) = "%" -> <<"%","2","5">>
            [] OTHER -> <<Head(s)>>) \o UrlQuote(Tail(s))

\* the unquoting the server applies to the request path before routing
RECURSIVE UrlUnquote(_)
UrlUnquote(s) ==
    IF s = <<>> THEN <<>>
    ELSE IF Len(s) >= 3 /\ SubSeq(s, 1, 3) = <<"%","2","0">>
         THEN <<" ">> \o UrlUnquote(SubSeq(s, 4, Len(s)))
    ELSE IF Len(s) >= 3 /\ SubSeq(s, 1, 3) = <<"%","2","5">>
         THEN <<"%">> \o UrlUnquote(SubSeq(s, 4, Len(s)))
    ELSE <<Head(s)>> \o UrlUnquote(Tail(s))

\* url_for('serve_image', filename=...)
UrlForServeImage(filename) == ImagesPrefix \o UrlQuote(filename)

\* the rule '/images/<filename>': the string converter takes one non-empty
\* path segment; matched is FALSE when the rule does not match
RouteImages(url) ==
    LET p == UrlUnquote(url)
        n == Len(ImagesPrefix)
        rest == SubSeq(p, n + 1, Len(p))
    IN  IF Len(p) > n /\ SubSeq(p, 1, n) = ImagesPrefix /\ RFind(rest, "/") = 0
        THEN [matched |-> TRUE, filename |-> rest]
        ELSE [matched |-> FALSE, filename |-> <<>>]

(***************************************************************************)
(* The file system: a location is the sequence of the names of the         *)
(* directories from the root down to the file.                             *)
(***************************************************************************)
TmpLoc == <<<<"t","m","p">>>>
RootLoc == <<>>
Dirs == {RootLoc, TmpLoc}

\* a path cut at its separators
RECURSIVE Components(_)
Components(p) ==
    LET I == {i \in 1..Len(p) : p[i] = "/"}
    IN  IF I = {} THEN <<p>>
        ELSE LET i == CHOOSE k \in I : \A j \in I : k <= j
             IN  <<SubSeq(p, 1, i - 1)>> \o Components(SubSeq(p, i + 1, Len(p)))

ParentLoc(loc) == IF loc = <<>> THEN <<>> ELSE SubSeq(loc, 1, Len(loc) - 1)

\* the directory walk the operating system makes of an absolute path: ok is
\* FALSE when a component is looked up in something that is no directory
RECURSIVE Walk(_, _)
Walk(comps, cur) ==
    IF comps = <<>> THEN [ok |-> TRUE, loc |-> cur]
    ELSE IF cur \notin Dirs THEN [ok |-> FALSE, loc |-> cur]
    ELSE LET c == Head(comps)
         IN  Walk(Tail(comps),
                  IF c = <<>> \/ c = <<".">> THEN cur
                  ELSE IF c = <<".", ".">> THEN ParentLoc(cur)
                  ELSE Append(cur, c))

Resolve(path) == Walk(Components(path), RootLoc)

(***************************************************************************)
(* Inputs.                                                                 *)
(***************************************************************************)
NameChars == {"a", " ", ".", "/"}
Exts == {<<>>, ExtCsv, <<".","C","S","V">>, ExtXls, ExtXlsx, <<".","t","x","t">>}
\* the filenames a client may put in the multipart 'file' part
Filenames == {b \o e : b \in Strings(NameChars, MaxBaseLen), e \in Exts}
SheetChars == {"0", " "}
\* the values a client may put in the 'sheet' form field
Sheets == Strings(SheetChars, MaxSheetLen)
\* the filenames asked of GET /images/<filename> besides the links of a page
GetNames == {<<"a">>, <<".">>, <<".", ".">>, <<"a", "/", ".", ".">>}

\* the uploads of two clients racing each other (SpecRace)
RaceFilenames == {<<"a">> \o ExtCsv}
RaceSheets == {<<"0">>}

\* the uploads compared for the paths they are given (SpecPair)
PairFilenames == {<<"a">> \o ExtCsv, <<"a">> \o ExtXls, <<"b">> \o ExtCsv}
PairSheets == {<<"0">>, <<" ">>, <<"_">>}
\* the answers given to them
PairTexts == {<<"read_csv", "savefig_composite", "savefig_combined">>, <<>>}

Reqs == 1..NReq

\* what a generated script may do, one statement after the other: read the
\* global csv_data_string, save a figure to one of the two paths of the
\* prompt, raise
Scripts ==
    { <<"read_csv", "savefig_composite", "savefig_combined">>,
      <<"read_csv", "savefig_composite">>,
      <<"read_csv", "savefig_composite", "raise">>,
      <<"raise">>,
      <<>> }
FenceTokens == {"fence_python_nl", "fence"}
\* the texts the model may answer with: a script, bare or inside a code fence
\* (fence_python_nl is the opening fence with its newline, fence the bare one)
AITexts == Scripts \cup {<<"fence_python_nl">> \o s \o <<"fence">> : s \in Scripts}
\* where the AI client may raise
AIFailures == {"init", "generate_content", "text"}
\* the answers given to the racing uploads: the script the prompt asks for
RaceTexts == {<<"read_csv", "savefig_composite", "savefig_combined">>}

\* the table parsed from the upload of request r, and its CSV text
ReadTable(r) == [upload |-> r]
ToCsv(df) == [csv_of |-> df]
NoCsv == [csv_of |-> [upload |-> 0]]

(***************************************************************************)
(* generate_visualization_with_gemini, piece by piece.                     *)
(***************************************************************************)
\* the sheet identifier put in the names as submitted
OutputFilenames_RawSheet(df, excel_filename, sheet_name) ==
    LET base_name == SplitExt(excel_filename)[1]
    IN  [composite |-> base_name \o SheetInfix \o sheet_name \o CompositeSuffix,
         combined  |-> base_name \o SheetInfix \o sheet_name \o CombinedSuffix]

\* the filename put in the names with its extension
OutputFilenames_KeepExt(df, excel_filename, sheet_name) ==
    LET sheet_str == ReplaceSpaces(sheet_name)
    IN  [composite |-> excel_filename \o SheetInfix \o sheet_str \o CompositeSuffix,
         combined  |-> excel_filename \o SheetInfix \o sheet_str \o CombinedSuffix]

\* lines 30-33: the two file names
OutputFilenames(df, excel_filename, sheet_name) ==
    LET base_name == SplitExt(excel_filename)[1]
        sheet_str == ReplaceSpaces(sheet_name)
    IN  [composite |-> base_name \o SheetInfix \o sheet_str \o CompositeSuffix,
         combined  |-> base_name \o SheetInfix \o sheet_str \o CombinedSuffix]

\* paths kept apart per upload
OutputPaths_PerUpload(df, excel_filename, sheet_name) ==
    LET names == OutputFilenames(df, excel_filename, sheet_name)
    IN  [composite_path |-> PathJoin(TmpDir, <<ToString(df.upload)>> \o names.composite),
         combined_path  |-> PathJoin(TmpDir, <<ToString(df.upload)>> \o names.combined)]

\* lines 36-37: the two paths the prompt names
OutputPaths(df, excel_filename, sheet_name) ==
    LET names == OutputFilenames(df, excel_filename, sheet_name)
    IN  [composite_path |-> PathJoin(TmpDir, names.composite),
         combined_path  |-> PathJoin(TmpDir, names.combined)]

\* None, None
NonePaths == [composite_path |-> <<>>, combined_path |-> <<>>]

\* line 82: the fences are cut out of the answer
StripFences(text) == SelectSeq(text, LAMBDA t : t \notin FenceTokens)

\* the handler of the AI error falling through to the success return
AIErrorReturn_Fallthrough(paths) == paths

\* lines 84-86: what the function returns when the AI client raised
AIErrorReturn(paths) == NonePaths

\* lines 107-108: what it returns when the script ran to its end
ExecReturnValue(paths) == paths

\* the script's error handled without printing the generated code
ExecErrorLog_Nothing(generated_code) == <<>>

\* lines 109-113: what it prints and returns when the script raised
ExecErrorLog(generated_code) == <<generated_code>>
ExecErrorReturn(paths) == NonePaths

(***************************************************************************)
(* upload_file and the template.                                           *)
(***************************************************************************)
\* HTML_TEMPLATE: the images are shown when both URLs are given
Page(message, error, composite_url, combined_url) ==
    [message |-> message,
     error   |-> error,
     images  |-> IF composite_url # <<>> /\ combined_url # <<>>
                 THEN <<composite_url, combined_url>> ELSE <<>>]

NoPage == [message |-> <<"-">>, error |-> <<"-">>, images |-> <<>>]

\* the 'sheet' field of a form: absent, or present with a value
FormSheets(sheets) ==
    {[present |-> FALSE, value |-> <<>>]}
        \cup {[present |-> TRUE, value |-> v] : v \in sheets}

\* line 161: request.form.get('sheet', '0')
FormGetSheet(has_sheet, value) == IF has_sheet THEN value ELSE DefaultSheet

\* every extension that is not Excel's read as CSV
ParseKind_NoElse(file_extension) ==
    IF file_extension \in {ExtXlsx, ExtXls} THEN "excel" ELSE "csv"

\* lines 174-180: the parser the extension selects
ParseKind(file_extension) ==
    IF file_extension \in {ExtXlsx, ExtXls} THEN "excel"
    ELSE IF file_extension = ExtCsv THEN "csv"
    ELSE "unsupported"

\* lines 185-194: the page rendered from what the generator returned
RenderGenerated(filename, ret) ==
    IF ret.composite_path # <<>> /\ ret.combined_path # <<>>
    THEN Page(<<"Successfully generated plots from ">> \o filename, <<>>,
              UrlForServeImage(Basename(ret.composite_path)),
              UrlForServeImage(Basename(ret.combined_path)))
    ELSE Page(<<>>, MsgPlotFailed, <<>>, <<>>)

(***************************************************************************)
(* State.                                                                  *)
(***************************************************************************)
VARIABLES
    req,             \* req[r]: the locals of request r and its response
    fs,              \* the files: location -> what was written there
    module_globals,  \* the module's globals, which exec runs the script in
    get              \* the answer to the latest GET /images/... that came
                     \* after the latest request of the form

vars == <<req, fs, module_globals, get>>

IdleReq ==
    [pc |-> "idle", method |-> "-", has_file |-> FALSE, filename |-> <<>>, sheet_input |-> <<>>,
     parsed |-> FALSE, df |-> [upload |-> 0], csv_data_string |-> NoCsv,
     paths |-> NonePaths, ai_calls |-> 0, ai_raised |-> FALSE,
     generated_code |-> <<>>, exec_runs |-> 0, todo |-> <<>>, read |-> NoCsv,
     script_raised |-> FALSE, script_ended |-> FALSE, log |-> <<>>,
     wrote |-> {}, page |-> NoPage]

NoGet == [url |-> <<>>, matched |-> FALSE, status |-> 0, file_path |-> <<>>,
          loc |-> <<>>, body |-> [writer |-> 0, data |-> NoCsv]]

Init ==
    /\ req = [r \in Reqs |-> IdleReq]
    /\ fs = <<>>
    /\ module_globals = [csv_data_string |-> NoCsv]
    /\ get = NoGet

\* req with the named locals of request r set
Set(r, fields) ==
    [req EXCEPT ![r] =
        [k \in DOMAIN @ |-> IF k \in DOMAIN fields THEN fields[k] ELSE @[k]]]

(***************************************************************************)
(* upload_file.                                                            *)
(***************************************************************************)
\* line 156 false, line 200: GET / renders the empty form
Index(r) ==
    /\ req[r].pc = "idle"
    /\ req' = Set(r, [pc |-> "done", method |-> "GET",
                      page |-> Page(<<>>, <<>>, <<>>, <<>>)])
    /\ get' = NoGet
    /\ UNCHANGED <<fs, module_globals>>

\* lines 157-158: POST / without a 'file' part
PostNoFile(r) ==
    /\ req[r].pc = "idle"
    /\ req' = Set(r, [pc |-> "done", method |-> "POST",
                      page |-> Page(<<>>, MsgNoFilePart, <<>>, <<>>)])
    /\ get' = NoGet
    /\ UNCHANGED <<fs, module_globals>>

\* lines 160-183 and 24-37: POST / with a 'file' part, up to the call of the
\* AI client; nothing shared is touched on the way. parse_ok tells whether
\* pandas can read the upload
Post(r, names, sheets) ==
    /\ req[r].pc = "idle"
    /\ \E filename \in names, form \in FormSheets(sheets), parse_ok \in BOOLEAN :
          LET sheet_input == FormGetSheet(form.present, form.value)
              file_extension == Lower(SplitExt(filename)[2])
              df == ReadTable(r)
              seen == [method |-> "POST", has_file |-> TRUE, filename |-> filename,
                       sheet_input |-> sheet_input]
          IN  req' =
                IF filename = <<>>
                THEN Set(r, [seen EXCEPT !.filename = <<>>] @@
                            [pc |-> "done",
                             page |-> Page(<<>>, MsgNoSelectedFile, <<>>, <<>>)])
                ELSE IF ParseKind(file_extension) = "unsupported"
                THEN Set(r, seen @@
                            [pc |-> "done",
                             page |-> Page(<<>>, MsgUnsupported(file_extension),
                                           <<>>, <<>>)])
                ELSE IF ~parse_ok
                THEN Set(r, seen @@
                            [pc |-> "done",
                             page |-> Page(<<>>, MsgInternal, <<>>, <<>>)])
                ELSE Set(r, seen @@
                            [pc |-> "ai", parsed |-> TRUE, df |-> df,
                             csv_data_string |-> ToCsv(df),
                             paths |-> OutputPaths(df, filename, sheet_input)])
    /\ get' = NoGet
    /\ UNCHANGED <<fs, module_globals>>

(***************************************************************************)
(* generate_visualization_with_gemini.                                     *)
(***************************************************************************)
\* lines 76-86: one call of the AI client; it raises, or answers with a text
AICall(r, texts) ==
    /\ req[r].pc = "ai"
    /\ \/ \E failure \in AIFailures :
            req' = Set(r, [pc |-> "done", ai_calls |-> req[r].ai_calls + 1,
                           ai_raised |-> TRUE,
                           page |-> RenderGenerated(req[r].filename,
                                        AIErrorReturn(req[r].paths))])
       \/ \E text \in texts :
            req' = Set(r, [pc |-> "exec", ai_calls |-> req[r].ai_calls + 1,
                           generated_code |-> StripFences(text)])
    /\ UNCHANGED <<fs, module_globals, get>>

\* lines 98-105: exec(full_script, globals()) begins; the preamble binds
\* csv_data_string in the globals of the module
ExecPreamble(r) ==
    /\ req[r].pc = "exec"
    /\ module_globals' = [module_globals EXCEPT
                            !.csv_data_string = req[r].csv_data_string]
    /\ req' = Set(r, [pc |-> "script", exec_runs |-> req[r].exec_runs + 1,
                      todo |-> req[r].generated_code])
    /\ UNCHANGED <<fs, get>>

\* lines 109-113 and 193-194: the script raised
ScriptRaised(r) ==
    Set(r, [pc |-> "done", script_raised |-> TRUE,
            log |-> ExecErrorLog(req[r].generated_code),
            page |-> RenderGenerated(req[r].filename,
                                     ExecErrorReturn(req[r].paths))])

\* a figure saved to path: the file is created or overwritten; saving
\* raises when the path names a directory or lies in none
SaveFig(r, path) ==
    LET w == Resolve(path)
        image == [writer |-> r, data |-> req[r].read]
    IN  IF w.ok /\ w.loc \notin Dirs
        THEN /\ fs' = [l \in DOMAIN fs \cup {w.loc} |->
                          IF l = w.loc THEN image ELSE fs[l]]
             /\ req' = Set(r, [todo |-> Tail(req[r].todo),
                               wrote |-> req[r].wrote \cup {w.loc}])
        ELSE /\ fs' = fs
             /\ req' = ScriptRaised(r)

\* line 105: the next statement of the generated script
ScriptStep(r) ==
    /\ req[r].pc = "script"
    /\ req[r].todo # <<>>
    /\ LET op == Head(req[r].todo)
       IN  CASE op = "read_csv" ->
                  /\ req' = Set(r, [todo |-> Tail(req[r].todo),
                                    read |-> module_globals.csv_data_string])
                  /\ fs' = fs
             [] op = "savefig_composite" -> SaveFig(r, req[r].paths.composite_path)
             [] op = "savefig_combined" -> SaveFig(r, req[r].paths.combined_path)
             [] op = "raise" -> req' = ScriptRaised(r) /\ fs' = fs
    /\ UNCHANGED <<module_globals, get>>

\* lines 107-108 and 185-192: the script ran to its end
ExecReturn(r) ==
    /\ req[r].pc = "script"
    /\ req[r].todo = <<>>
    /\ req' = Set(r, [pc |-> "done", script_ended |-> TRUE,
                      page |-> RenderGenerated(req[r].filename,
                                               ExecReturnValue(req[r].paths))])
    /\ UNCHANGED <<fs, module_globals, get>>

(***************************************************************************)
(* serve_image.                                                            *)
(***************************************************************************)
FileExists(loc) == loc \in DOMAIN fs

\* os.path.exists
PathExists(path) ==
    LET w == Resolve(path) IN w.ok /\ (w.loc \in Dirs \/ FileExists(w.loc))

\* lines 203-209: GET of url; send_file of a directory raises, which the
\* framework answers with status 500
ServeImage(url) ==
    LET m == RouteImages(url)
        file_path == PathJoin(TmpDir, m.filename)
        w == Resolve(file_path)
    IN  IF ~m.matched
        THEN [NoGet EXCEPT !.url = url, !.status = 404]
        ELSE IF ~PathExists(file_path)
        THEN [NoGet EXCEPT !.url = url, !.matched = TRUE, !.status = 404,
                           !.file_path = file_path, !.loc = w.loc]
        ELSE IF w.loc \in Dirs
        THEN [NoGet EXCEPT !.url = url, !.matched = TRUE, !.status = 500,
                           !.file_path = file_path, !.loc = w.loc]
        ELSE [url |-> url, matched |-> TRUE, status |-> 200,
              file_path |-> file_path, loc |-> w.loc, body |-> fs[w.loc]]

\* the links of the pages rendered so far
PageLinks == UNION {{req[r].page.images[i] : i \in DOMAIN req[r].page.images} : r \in Reqs}
\* the URLs a client types by hand
TypedLinks == {ImagesPrefix \o n : n \in GetNames}

Serve(urls) ==
    /\ \E url \in urls : get' = ServeImage(url)
    /\ UNCHANGED <<req, fs, module_globals>>

(***************************************************************************)
(* Specifications.                                                         *)
(***************************************************************************)
\* no upload is being handled
Quiet == \A r \in Reqs : req[r].pc \in {"idle", "done"}

\* an image request taken by a worker that handles one request at a time
ServeWhenQuiet(urls) == Quiet /\ Serve(urls)

\* a server with one synchronous worker: one upload, of any filename and
\* sheet, handled from start to end, and image requests before or after it
Next ==
    \/ Index(1)
    \/ PostNoFile(1)
    \/ Post(1, Filenames, Sheets)
    \/ AICall(1, AITexts)
    \/ ExecPreamble(1)
    \/ ScriptStep(1)
    \/ ExecReturn(1)
    \/ ServeWhenQuiet(PageLinks \cup TypedLinks)

Spec == Init /\ [][Next]_vars

\* NReq uploads handled by concurrent threads of the one process
NextRace ==
    \/ \E r \in Reqs : PostNoFile(r)
    \/ \E r \in Reqs : Post(r, RaceFilenames, RaceSheets)
    \/ \E r \in Reqs : AICall(r, RaceTexts)
    \/ \E r \in Reqs : ExecPreamble(r)
    \/ \E r \in Reqs : ScriptStep(r)
    \/ \E r \in Reqs : ExecReturn(r)
    \/ Serve(PageLinks)

SpecRace == Init /\ [][NextRace]_vars

\* NReq uploads parsed and answered by the AI client, in any order
NextPair ==
    \/ \E r \in Reqs : Post(r, PairFilenames, PairSheets)
    \/ \E r \in Reqs : AICall(r, PairTexts)

SpecPair == Init /\ [][NextPair]_vars

(***************************************************************************)
(* Properties.                                                             *)
(***************************************************************************)
\* request r was answered with the page that shows the two images
SuccessPage(r) == req[r].pc = "done" /\ req[r].page.images # <<>>

\* request r was answered with the "Plot generation failed" page
PlotFailedPage(r) ==
    /\ req[r].pc = "done"
    /\ req[r].page = [message |-> <<>>, error |-> MsgPlotFailed, images |-> <<>>]

\* request r left a file behind
WroteSomething(r) ==
    req[r].wrote # {} \/ \E l \in DOMAIN fs : fs[l].writer = r

\* a place below /tmp
InsideTmp(loc) == Len(loc) >= 2 /\ SubSeq(loc, 1, 1) = TmpLoc

\* a file is at the place path names
FileAt(path) == Resolve(path).ok /\ FileExists(Resolve(path).loc)

\* C1: whenever the generator reports success, a file exists at the composite
\* path and another at the combined path; a script that wrote fewer than the
\* two files is never answered with the success page.
C1_SuccessMeansTwoFiles ==
    \A r \in Reqs :
        SuccessPage(r) =>
            /\ FileAt(req[r].paths.composite_path)
            /\ FileAt(req[r].paths.combined_path)
            /\ Resolve(req[r].paths.composite_path).loc
                  # Resolve(req[r].paths.combined_path).loc

\* C2: when the AI client raised, the request is over, its page is the error
\* "Plot generation failed" without image URLs, the client was called once,
\* the script executor did not run and the request wrote no file.
C2_AIFailure ==
    \A r \in Reqs :
        req[r].ai_raised =>
            /\ PlotFailedPage(r)
            /\ req[r].ai_calls = 1
            /\ req[r].exec_runs = 0
            /\ ~WroteSomething(r)

C2_Witness == \E r \in Reqs : req[r].ai_raised /\ req[r].pc = "done"

\* C3: when the generated script raised, the generated source was logged, the
\* handler returned, and its page is the same "Plot generation failed" page
\* as after a failure of the AI client, without image URLs.
C3_ScriptError ==
    \A r \in Reqs :
        req[r].script_raised =>
            /\ req[r].log = <<req[r].generated_code>>
            /\ PlotFailedPage(r)
            /\ ~req[r].ai_raised

C3_Witness ==
    \E r \in Reqs : req[r].script_raised /\ req[r].pc = "done" /\ req[r].wrote # {}

\* the extensions the claims name
NamedExtensions == {<<".","x","l","s","x">>, <<".","x","l","s">>, <<".","c","s","v">>}

InputError(r) ==
    IF req[r].method # "POST" THEN "none"
    ELSE IF ~req[r].has_file THEN "No file part"
    ELSE IF req[r].filename = <<>> THEN "No selected file"
    ELSE IF Lower(SplitExt(req[r].filename)[2]) \notin NamedExtensions
         THEN "Unsupported file type"
    ELSE "none"

\* C4: a POST without 'file' part, with an empty filename or with an
\* extension outside .xlsx, .xls, .csv is answered with the error page of that
\* message, without image URLs, and neither the AI client nor the script
\* executor is called for it.
C4_InputErrors ==
    \A r \in Reqs :
        InputError(r) # "none" =>
            /\ req[r].pc = "done"
            /\ req[r].page.error # <<>>
            /\ req[r].page.error[1] = InputError(r)
            /\ req[r].page.images = <<>>
            /\ req[r].ai_calls = 0
            /\ req[r].exec_runs = 0

C4_Witness ==
    \E r \in Reqs :
        /\ InputError(r) = "Unsupported file type"
        /\ SplitExt(req[r].filename)[2] = <<".","t","x","t">>
        /\ req[r].pc = "done"

\* C5: a GET /images/<filename> is answered 404 when no file is at the place
\* the name resolves to, and 200 otherwise, and that place is inside /tmp.
C5_ServeInsideTmp ==
    (get.status # 0 /\ get.matched) =>
        /\ InsideTmp(get.loc)
        /\ get.status = IF FileExists(get.loc) THEN 200 ELSE 404

\* the request ran through parsing, the AI call and the script without error
AllSucceeded(r) ==
    /\ req[r].parsed
    /\ req[r].ai_calls = 1 /\ ~req[r].ai_raised
    /\ req[r].script_ended /\ ~req[r].script_raised

\* C6 as stated: the success page embeds /images/{base}_sheet_{sheet}_composite_plot.png
\* and /images/{base}_sheet_{sheet}_combined_ctp_graph.png (URL-quoted), base
\* the filename without extension and sheet the submitted identifier, and is
\* rendered only when parsing, AI call and script all succeeded.
C6_LiteralUrls ==
    \A r \in Reqs :
        /\ SuccessPage(r) <=> (req[r].pc = "done" /\ AllSucceeded(r))
        /\ SuccessPage(r) =>
            LET stem == SplitExt(req[r].filename)[1] \o SheetInfix \o req[r].sheet_input
            IN  /\ req[r].page.images =
                    << ImagesPrefix \o UrlQuote(stem \o CompositeSuffix),
                       ImagesPrefix \o UrlQuote(stem \o CombinedSuffix) >>
                /\ req[r].page.images[1] # req[r].page.images[2]

\* C6 as amended: the two URLs are distinct and are /images/ followed by the
\* URL-quoted last path component of {base}_sheet_{sheet_str}_composite_plot.png
\* and of {base}_sheet_{sheet_str}_combined_ctp_graph.png, sheet_str being the
\* submitted sheet with its spaces replaced by underscores; the success page
\* is rendered exactly when parsing, AI call and script all succeeded.
C6_QuotedBasenameUrls ==
    \A r \in Reqs :
        /\ SuccessPage(r) <=> (req[r].pc = "done" /\ AllSucceeded(r))
        /\ SuccessPage(r) =>
            LET stem == SplitExt(req[r].filename)[1] \o SheetInfix
                            \o ReplaceSpaces(req[r].sheet_input)
            IN  /\ req[r].page.images =
                    << ImagesPrefix \o UrlQuote(Basename(stem \o CompositeSuffix)),
                       ImagesPrefix \o UrlQuote(Basename(stem \o CombinedSuffix)) >>
                /\ req[r].page.images[1] # req[r].page.images[2]

C6_Witness ==
    \E r \in Reqs :
        /\ SuccessPage(r)
        /\ req[r].sheet_input = <<" ">>
        /\ RFind(req[r].filename, "/") # 0
        /\ RFind(req[r].filename, " ") # 0

\* C9: a GET of either URL of a success page opens the place the prompt told
\* the script to write that image to.
C9_LinksOpenPromptPaths ==
    \A r \in Reqs :
        (SuccessPage(r) /\ get.status # 0) =>
            /\ get.url = req[r].page.images[1] =>
                  /\ get.matched
                  /\ Resolve(req[r].paths.composite_path).ok
                  /\ get.loc = Resolve(req[r].paths.composite_path).loc
            /\ get.url = req[r].page.images[2] =>
                  /\ get.matched
                  /\ Resolve(req[r].paths.combined_path).ok
                  /\ get.loc = Resolve(req[r].paths.combined_path).loc

\* the upload of request r was parsed and its output paths computed
Posted(r) == req[r].paths # NonePaths

\* C7: the CSV text a script has read from the module's globals is the text
\* of its own request, and while the script of a request runs, the global
\* csv_data_string is the one that request bound.
C7_ScriptReadsOwnCsv ==
    \A r \in Reqs :
        /\ req[r].read # NoCsv => req[r].read = req[r].csv_data_string
        /\ req[r].pc = "script" =>
              module_globals.csv_data_string = req[r].csv_data_string

\* C8: requests that submit the same filename and sheet are given the same
\* two paths and, on success, the same two image URLs; a GET of such a URL
\* is answered with whatever file is at that place, whoever wrote it.
C8_SameNameSamePaths ==
    \A a, b \in Reqs :
        (/\ Posted(a) /\ Posted(b)
         /\ req[a].filename = req[b].filename
         /\ req[a].sheet_input = req[b].sheet_input) =>
            /\ req[a].paths = req[b].paths
            /\ (SuccessPage(a) /\ SuccessPage(b)) =>
                  req[a].page.images = req[b].page.images
            /\ (SuccessPage(a) /\ get.status = 200
                    /\ get.url \in {req[a].page.images[1], req[a].page.images[2]}) =>
                  get.loc \in {Resolve(req[b].paths.composite_path).loc,
                               Resolve(req[b].paths.combined_path).loc}

\* request a was answered with the success page, and a GET of its composite
\* image returned the file request b wrote from b's own table
C8_Witness ==
    \E a, b \in Reqs :
        /\ a # b
        /\ req[a].filename = req[b].filename
        /\ req[a].sheet_input = req[b].sheet_input
        /\ SuccessPage(a)
        /\ req[a].read = req[a].csv_data_string
        /\ get.url = req[a].page.images[1]
        /\ get.status = 200
        /\ get.body = [writer |-> b, data |-> req[b].csv_data_string]

\* C10 as stated: two requests that were given the same output paths
\* submitted the same filename and the same sheet identifier.
C10_PathsSeparatePairs ==
    \A a, b \in Reqs :
        (Posted(a) /\ Posted(b) /\ req[a].paths = req[b].paths) =>
            /\ req[a].filename = req[b].filename
            /\ req[a].sheet_input = req[b].sheet_input

\* C10 as amended: two requests whose filenames agree once the extension is
\* removed and whose sheets agree once spaces are replaced by underscores are
\* given the same output paths, whatever their tables and whatever the AI
\* answered; the paths are not changed by the AI call.
C10_PathsFromBaseAndSheetStr ==
    \A a, b \in Reqs :
        (/\ Posted(a) /\ Posted(b)
         /\ SplitExt(req[a].filename)[1] = SplitExt(req[b].filename)[1]
         /\ ReplaceSpaces(req[a].sheet_input) = ReplaceSpaces(req[b].sheet_input)) =>
            req[a].paths = req[b].paths

C10_Witness ==
    \E a, b \in Reqs :
        /\ Posted(a) /\ Posted(b)
        /\ req[a].df # req[b].df
        /\ req[a].filename # req[b].filename
        /\ req[a].sheet_input # req[b].sheet_input
        /\ req[a].pc = "exec" /\ req[b].pc = "exec"
        /\ req[a].generated_code # req[b].generated_code
        /\ req[a].paths = req[b].paths

====
